---- MODULE Spec2Model ----
(***************************************************************************)
(* Model of scilpy/tractograms/dps_and_dpp_management.py: the operations   *)
(* that move values between data_per_streamline (dps), data_per_point      *)
(* (dpp) and volumetric maps of a StatefulTractogram.                      *)
(*                                                                         *)
(* Representation.                                                         *)
(*  - A coordinate is a fixed-point number: the integer c stands for       *)
(*    c / 2 (half units), so that -0.5, 0.5, 1.0 ... are representable.    *)
(*  - A dps / dpp value is a vector (tuple) of integers; a "scalar"        *)
(*    attribute is a vector of width 1, as in nibabel's PerArrayDict.      *)
(*  - A dictionary is a function whose DOMAIN is its key set.              *)
(*  - A cell of a floating point array is a record [nan, val].             *)
(***************************************************************************)
EXTENDS Integers, Sequences, FiniteSets, TLC

VARIABLES streamlines, data_per_streamline, data_per_point, space, origin,
          call, pre, result

vars == <<streamlines, data_per_streamline, data_per_point, space, origin,
          call, pre, result>>

----------------------------------------------------------------------------
(* Bounds of the model *)

MaxStreamlines == 2

MaxPoints == 3

MaxKeys == 2

GridSize == 2

----------------------------------------------------------------------------
(* The tractogram container (sft): geometry and coordinate conventions *)

KeyNames == {"a", "b"}

Width(k) == IF k = "a" THEN 1 ELSE 2

KeyNum(k) == IF k = "a" THEN 1 ELSE 2

Spaces == {"rasmm", "voxmm", "vox"}

Origins == {"center", "corner"}

\* voxel size (mm) and world translation (mm) of the reference affine
VoxSize == 2

Translation == 10

\* sft.dimensions
dimensions == <<GridSize, GridSize, 1>>

\* Points of a fixed curve, as voxel-space / corner-origin coordinates in
\* half units: (0.5,0.5,0.5) (1.5,1.5,0.5) (1.5,1.0,0.0) (-0.5,1.5,0.5)
\* (1.0,0.5,0.5)
PathPts == << <<1, 1, 1>>, <<3, 3, 1>>, <<3, 2, 0>>, <<-1, 3, 1>>, <<2, 1, 1>> >>

\* streamline number i of a tractogram walks n points along the curve,
\* starting from point i of the curve
PathStreamline(start, n) ==
    [j \in 1..n |-> PathPts[((start + j - 2) % Len(PathPts)) + 1]]

\* coordinates of a voxel/corner point under another convention
FromVoxCorner(p, sp, org) ==
    LET c == IF org = "center" THEN [d \in 1..3 |-> p[d] - 1] ELSE p
    IN  CASE sp = "vox"   -> c
          [] sp = "voxmm" -> [d \in 1..3 |-> c[d] * VoxSize]
          [] sp = "rasmm" -> [d \in 1..3 |-> c[d] * VoxSize + 2 * Translation]

\* sft.to_vox() applied to one point: same origin, voxel space
ToVoxPoint(p, sp) ==
    CASE sp = "vox"   -> p
      [] sp = "voxmm" -> [d \in 1..3 |-> p[d] \div VoxSize]
      [] sp = "rasmm" -> [d \in 1..3 |-> (p[d] - 2 * Translation) \div VoxSize]

\* sft.to_corner() applied to one voxel-space point
ToCornerPoint(p, org) ==
    IF org = "center" THEN [d \in 1..3 |-> p[d] + 1] ELSE p

to_vox(sls, sp) ==
    [i \in 1..Len(sls) |-> [j \in 1..Len(sls[i]) |-> ToVoxPoint(sls[i][j], sp)]]

to_corner(sls, org) ==
    [i \in 1..Len(sls) |-> [j \in 1..Len(sls[i]) |-> ToCornerPoint(sls[i][j], org)]]

\* the dps value a tractogram is loaded with, key k, streamline i
LoadedDps(k, i) == [c \in 1..Width(k) |-> 10 * KeyNum(k) + 3 * i + c]

\* the dpp value a tractogram is loaded with, key k, streamline i, point j
LoadedDpp(k, i, j) == [c \in 1..Width(k) |-> 100 + 10 * KeyNum(k) + 3 * i + 7 * j + c]

\* dictionary assignment d[k] = v and deletion del d[k]
DictSet(d, k, v) == [x \in (DOMAIN d) \cup {k} |-> IF x = k THEN v ELSE d[x]]

DictDel(d, k) == [x \in (DOMAIN d) \ {k} |-> d[x]]

Snapshot ==
    [streamlines |-> streamlines, dps |-> data_per_streamline,
     dpp |-> data_per_point, space |-> space, origin |-> origin]

----------------------------------------------------------------------------
(* convert_dps_to_dpp *)

\* mutant: one copy too few
Broadcast_OneShort(val, s) == [j \in 1..(Len(s) - 1) |-> val]

\* [val] * len(s)
Broadcast(val, s) == [j \in 1..Len(s) |-> val]

\* mutant: every streamline gets the length of the first one
BroadcastAll_FirstLength(vals, sls) ==
    [i \in 1..Len(sls) |-> [j \in 1..Len(sls[1]) |-> vals[i]]]

\* [[val]*len(s) for val, s in zip(dps[key], streamlines)]
BroadcastAll(vals, sls) ==
    LET n == IF Len(vals) < Len(sls) THEN Len(vals) ELSE Len(sls)
    IN  [i \in 1..n |-> Broadcast(vals[i], sls[i])]

\* mutant: the dps key is not deleted
ConvertKey_NoDelete(st, key, overwrite, sls) ==
    IF key \notin DOMAIN st.dps
    THEN [st EXCEPT !.err = "missing_key", !.key = key]
    ELSE IF key \in DOMAIN st.dpp /\ ~overwrite
    THEN [st EXCEPT !.err = "key_collision", !.key = key]
    ELSE [st EXCEPT !.dpp = DictSet(st.dpp, key, BroadcastAll(st.dps[key], sls)),
                    !.done = st.done + 1]

\* mutant: a key that is not in dps is skipped
ConvertKey_SkipMissing(st, key, overwrite, sls) ==
    IF key \notin DOMAIN st.dps
    THEN [st EXCEPT !.done = st.done + 1]
    ELSE IF key \in DOMAIN st.dpp /\ ~overwrite
    THEN [st EXCEPT !.err = "key_collision", !.key = key]
    ELSE [st EXCEPT !.dpp = DictSet(st.dpp, key, BroadcastAll(st.dps[key], sls)),
                    !.dps = DictDel(st.dps, key),
                    !.done = st.done + 1]

\* mutant: the overwrite flag is not consulted
ConvertKey_IgnoreOverwrite(st, key, overwrite, sls) ==
    IF key \notin DOMAIN st.dps
    THEN [st EXCEPT !.err = "missing_key", !.key = key]
    ELSE IF key \in DOMAIN st.dpp
    THEN [st EXCEPT !.err = "key_collision", !.key = key]
    ELSE [st EXCEPT !.dpp = DictSet(st.dpp, key, BroadcastAll(st.dps[key], sls)),
                    !.dps = DictDel(st.dps, key),
                    !.done = st.done + 1]

\* mutant: the dps key is deleted and no dpp entry is written
ConvertKey_DeleteOnly(st, key, overwrite, sls) ==
    IF key \notin DOMAIN st.dps
    THEN [st EXCEPT !.err = "missing_key", !.key = key]
    ELSE IF key \in DOMAIN st.dpp /\ ~overwrite
    THEN [st EXCEPT !.err = "key_collision", !.key = key]
    ELSE [st EXCEPT !.dps = DictDel(st.dps, key),
                    !.done = st.done + 1]

\* mutant: data_per_point is rebuilt with the converted key alone
ConvertKey_ResetsDpp(st, key, overwrite, sls) ==
    IF key \notin DOMAIN st.dps
    THEN [st EXCEPT !.err = "missing_key", !.key = key]
    ELSE IF key \in DOMAIN st.dpp /\ ~overwrite
    THEN [st EXCEPT !.err = "key_collision", !.key = key]
    ELSE [st EXCEPT !.dpp = [x \in {key} |-> BroadcastAll(st.dps[key], sls)],
                    !.dps = DictDel(st.dps, key),
                    !.done = st.done + 1]

\* mutant: the dpp collision is tested before the presence in dps
ConvertKey_CollisionFirst(st, key, overwrite, sls) ==
    IF key \in DOMAIN st.dpp /\ ~overwrite
    THEN [st EXCEPT !.err = "key_collision", !.key = key]
    ELSE IF key \notin DOMAIN st.dps
    THEN [st EXCEPT !.err = "missing_key", !.key = key]
    ELSE [st EXCEPT !.dpp = DictSet(st.dpp, key, BroadcastAll(st.dps[key], sls)),
                    !.dps = DictDel(st.dps, key),
                    !.done = st.done + 1]

\* one iteration of the loop over keys
ConvertKey(st, key, overwrite, sls) ==
    IF key \notin DOMAIN st.dps
    THEN [st EXCEPT !.err = "missing_key", !.key = key]
    ELSE IF key \in DOMAIN st.dpp /\ ~overwrite
    THEN [st EXCEPT !.err = "key_collision", !.key = key]
    ELSE [st EXCEPT !.dpp = DictSet(st.dpp, key, BroadcastAll(st.dps[key], sls)),
                    !.dps = DictDel(st.dps, key),
                    !.done = st.done + 1]

RECURSIVE ConvertLoop(_, _, _, _, _)
ConvertLoop(st, keys, i, overwrite, sls) ==
    IF i > Len(keys) \/ st.err # "none"
    THEN st
    ELSE ConvertLoop(ConvertKey(st, keys[i], overwrite, sls), keys, i + 1,
                     overwrite, sls)

\* the whole call on dictionaries dps, dpp: final dictionaries, the error
\* raised (or "none"), the key it was raised for, the number of keys converted
convert_dps_to_dpp(dps, dpp, sls, keys, overwrite) ==
    ConvertLoop([dps |-> dps, dpp |-> dpp, err |-> "none", key |-> "",
                 done |-> 0], keys, 1, overwrite, sls)

\* what the call hands back: the tractogram it was given
ConvertReturn(err) == IF err = "none" THEN "sft" ELSE "raised"

KeyLists == UNION {[1..n -> KeyNames] : n \in 0..MaxKeys}

Convert(keys, overwrite) ==
    LET r == convert_dps_to_dpp(data_per_streamline, data_per_point,
                                streamlines, keys, overwrite)
    IN  /\ call' = [op |-> "convert_dps_to_dpp", keys |-> keys,
                    overwrite |-> overwrite]
        /\ pre' = Snapshot
        /\ data_per_streamline' = r.dps
        /\ data_per_point' = r.dpp
        /\ result' = [err |-> r.err, key |-> r.key, done |-> r.done,
                      ret |-> ConvertReturn(r.err)]
        /\ UNCHANGED <<streamlines, space, origin>>

----------------------------------------------------------------------------
(* Floating point cells and arrays *)

Num(v) == [nan |-> FALSE, val |-> v]

NaN == [nan |-> TRUE, val |-> 0]

\* a value handed back by a lookup: shape <<>> (scalar) or <<d>> (vector)
Scalar(v) == [shape |-> <<>>, flat |-> <<Num(v)>>]

Vector(vs) == [shape |-> <<Len(vs)>>, flat |-> [c \in 1..Len(vs) |-> Num(vs[c])]]

\* the cells of a list of values, in order
RECURSIVE Ravel(_)
Ravel(values) ==
    IF values = <<>> THEN <<>>
    ELSE Head(values).flat \o Ravel(Tail(values))

\* np.reshape(values, (rows, cols)): "ValueError" when the sizes differ
Reshape(values, rows, cols) ==
    LET flat == Ravel(values)
    IN  IF Len(flat) # rows * cols
        THEN [err |-> "ValueError", rows |-> <<>>]
        ELSE [err |-> "none",
              rows |-> [r \in 1..rows |-> [c \in 1..cols |-> flat[(r - 1) * cols + c]]]]

\* np.ones((rows, cols)) * np.nan
NanArray(rows, cols) == [r \in 1..rows |-> [c \in 1..cols |-> NaN]]

\* arr[r] = value, with numpy's broadcast of a scalar or size-1 value
AssignRow(arr, r, value) ==
    LET cols == Len(arr[r])
    IN  [arr EXCEPT ![r] = IF Len(value.flat) = cols
                           THEN value.flat
                           ELSE [c \in 1..cols |-> value.flat[1]]]

----------------------------------------------------------------------------
(* The volumetric map (DataVolume) *)

MaxChannels == 2

Voxels == (0..(dimensions[1] - 1)) \X (0..(dimensions[2] - 1)) \X (0..(dimensions[3] - 1))

\* map_volume.data.shape of a 3D map and of a 4D map with ch channels
Map3D == [shape |-> dimensions]

Map4D(ch) == [shape |-> dimensions \o <<ch>>]

MapVolumes == {Map3D} \cup {Map4D(ch) : ch \in 1..MaxChannels}

\* map_volume.data[x, y, z] and map_volume.data[x, y, z, c]
MapData(v, c) == 1 + v[1] + 4 * v[2] + 16 * v[3] + 50 * (c - 1)

Floor2(c) == c \div 2

Clamp(i, n) == IF i < 0 THEN 0 ELSE IF i > n - 1 THEN n - 1 ELSE i

\* the voxel a coordinate given under (sp, org) falls in, nearest to the grid
VoxelOf(p, sp, org) ==
    LET q == ToCornerPoint(ToVoxPoint(p, sp), org)
    IN  <<Clamp(Floor2(q[1]), dimensions[1]), Clamp(Floor2(q[2]), dimensions[2]),
          Clamp(Floor2(q[3]), dimensions[3])>>

\* map_volume.get_value_at_coordinate(x, y, z, space=sp, origin=org)
get_value_at_coordinate(map, p, sp, org) ==
    IF Len(map.shape) = 4
    THEN Vector([c \in 1..map.shape[4] |-> MapData(VoxelOf(p, sp, org), c)])
    ELSE Scalar(MapData(VoxelOf(p, sp, org), 1))

----------------------------------------------------------------------------
(* project_map_to_streamlines *)

\* mutant: a 3D map is given as many columns as it has dimensions
MapDimension_FromNdim(map) == IF Len(map.shape) = 4 THEN map.shape[4] ELSE 3

MapDimension(map) == IF Len(map.shape) = 4 THEN map.shape[4] ELSE 1

\* mutant: the interior rows are zero, as the docstring has it
ProjectEndpoints_ZeroFill(map, s, sp, org) ==
    LET dimension == MapDimension(map)
        p1_data == get_value_at_coordinate(map, s[1], sp, org)
        p2_data == get_value_at_coordinate(map, s[Len(s)], sp, org)
        zeros == [r \in 1..Len(s) |-> [c \in 1..dimension |-> Num(0)]]
        filled == AssignRow(AssignRow(zeros, 1, p1_data), Len(s), p2_data)
    IN  [err |-> "none", rows |-> filled]

\* the body of the loop of the endpoints_only branch, for streamline s
ProjectEndpoints(map, s, sp, org) ==
    LET dimension == MapDimension(map)
        p1_data == get_value_at_coordinate(map, s[1], sp, org)
        p2_data == get_value_at_coordinate(map, s[Len(s)], sp, org)
        thisstreamline_data == NanArray(Len(s), dimension)
        filled == AssignRow(AssignRow(thisstreamline_data, 1, p1_data), Len(s), p2_data)
    IN  [err |-> "none", rows |-> filled]

\* the body of the loop of the other branch, for streamline s
ProjectAllPoints(map, s, sp, org) ==
    LET dimension == MapDimension(map)
        thisstreamline_data ==
            [j \in 1..Len(s) |-> get_value_at_coordinate(map, s[j], sp, org)]
    IN  Reshape(thisstreamline_data, Len(thisstreamline_data), dimension)

project_map_to_streamlines(sls, sp, org, map, endpoints_only) ==
    LET per == [i \in 1..Len(sls) |->
                   IF endpoints_only THEN ProjectEndpoints(map, sls[i], sp, org)
                   ELSE ProjectAllPoints(map, sls[i], sp, org)]
    IN  IF \E i \in 1..Len(sls) : per[i].err # "none"
        THEN [err |-> "ValueError", streamline_data |-> <<>>]
        ELSE [err |-> "none",
              streamline_data |-> [i \in 1..Len(sls) |-> per[i].rows]]

ProjectMap(map, endpoints_only) ==
    LET r == project_map_to_streamlines(streamlines, space, origin, map,
                                        endpoints_only)
    IN  /\ call' = [op |-> "project_map_to_streamlines", map |-> map,
                    endpoints_only |-> endpoints_only]
        /\ pre' = Snapshot
        /\ result' = r
        /\ UNCHANGED <<streamlines, data_per_streamline, data_per_point,
                       space, origin>>

----------------------------------------------------------------------------
(* project_dpp_to_map *)

\* a rational number in lowest terms, den > 0 (the exact value of a float)
RECURSIVE Gcd(_, _)
Gcd(a, b) == IF b = 0 THEN a ELSE Gcd(b, a % b)

Abs(a) == IF a < 0 THEN -a ELSE a

Rat(n, d) ==
    LET g == Gcd(Abs(n), Abs(d))
        sgn == IF d < 0 THEN -1 ELSE 1
    IN  [num |-> sgn * (n \div g), den |-> sgn * (d \div g)]

RatLess(a, b) == a.num * b.den < b.num * a.den

RatDiv(a, b) == Rat(a.num * b.den, a.den * b.num)

\* 1e-6
Epsilon == Rat(1, 1000000)

\* np.zeros(sft.dimensions)
Zeros == [v \in Voxels |-> 0]

\* .astype(int) of a coordinate in half units: truncation toward zero
AsInt(c) == IF c >= 0 THEN c \div 2 ELSE -((-c) \div 2)

\* numpy's resolution of index i on an axis of size n: negative indices count
\* from the end, -1 stands for "IndexError"
NpIndex(i, n) ==
    IF 0 <= i /\ i < n THEN i
    ELSE IF -n <= i /\ i < 0 THEN i + n
    ELSE -1

\* mutant: a streamline of one point is selected once
SelectedPoints_Distinct(s, endpoints_only) ==
    IF endpoints_only
    THEN IF Len(s) = 1 THEN <<1>> ELSE <<1, Len(s)>>
    ELSE [j \in 1..Len(s) |-> j]

\* mutant: only the first point of a streamline is an endpoint
SelectedPoints_FirstOnly(s, endpoints_only) ==
    IF endpoints_only THEN <<1>> ELSE [j \in 1..Len(s) |-> j]

\* points = [0, -1] or range(len(s)), as positions 1..len(s)
SelectedPoints(s, endpoints_only) ==
    IF endpoints_only THEN <<1, Len(s)>> ELSE [j \in 1..Len(s) |-> j]

\* the body of the inner loop: point p of streamline s
AccumulatePoint(acc, sls, dpp, dpp_key, s, p) ==
    LET pt == sls[s][p]
        x == NpIndex(AsInt(pt[1]), dimensions[1])
        y == NpIndex(AsInt(pt[2]), dimensions[2])
        z == NpIndex(AsInt(pt[3]), dimensions[3])
        v == <<x, y, z>>
    IN  IF x = -1 \/ y = -1 \/ z = -1
        THEN [acc EXCEPT !.err = "IndexError"]
        ELSE IF dpp_key \notin DOMAIN dpp
        THEN [acc EXCEPT !.err = "KeyError", !.count[v] = @ + 1]
        ELSE IF Len(dpp[dpp_key][s][p]) # 1
        THEN [acc EXCEPT !.err = "ValueError", !.count[v] = @ + 1]
        ELSE [acc EXCEPT !.count[v] = @ + 1,
                         !.the_map[v] = @ + dpp[dpp_key][s][p][1]]

RECURSIVE AccumulateStreamline(_, _, _, _, _, _, _)
AccumulateStreamline(acc, sls, dpp, dpp_key, s, points, n) ==
    IF n > Len(points) \/ acc.err # "none"
    THEN acc
    ELSE AccumulateStreamline(
             AccumulatePoint(acc, sls, dpp, dpp_key, s, points[n]),
             sls, dpp, dpp_key, s, points, n + 1)

RECURSIVE AccumulateAll(_, _, _, _, _, _)
AccumulateAll(acc, sls, dpp, dpp_key, endpoints_only, s) ==
    IF s > Len(sls) \/ acc.err # "none"
    THEN acc
    ELSE AccumulateAll(
             AccumulateStreamline(acc, sls, dpp, dpp_key, s,
                                  SelectedPoints(sls[s], endpoints_only), 1),
             sls, dpp, dpp_key, endpoints_only, s + 1)

\* mutant: the sum is divided by the number of streamlines
Average_ByStreamlines(the_map, count, nb) ==
    [v \in Voxels |-> IF nb = 0 THEN Rat(0, 1) ELSE Rat(the_map[v], nb)]

\* count = np.maximum(count, 1e-6); the_map /= count
Average(the_map, count, nb) ==
    LET floored == [v \in Voxels |->
                       IF RatLess(Rat(count[v], 1), Epsilon) THEN Epsilon
                       ELSE Rat(count[v], 1)]
    IN  [v \in Voxels |-> RatDiv(Rat(the_map[v], 1), floored[v])]

\* the loops and the aggregation, on streamlines already in voxel space with
\* corner origin
project_dpp_to_map(sls, dpp, dpp_key, sum_lines, endpoints_only) ==
    LET acc == AccumulateAll([count |-> Zeros, the_map |-> Zeros, err |-> "none"],
                             sls, dpp, dpp_key, endpoints_only, 1)
    IN  IF acc.err # "none"
        THEN [err |-> acc.err]
        ELSE IF sum_lines
        THEN [err |-> "none", the_map |-> [v \in Voxels |-> Rat(acc.the_map[v], 1)]]
        ELSE [err |-> "none", the_map |-> Average(acc.the_map, acc.count, Len(sls))]

\* mutant: the tractogram is handed back in the convention it came in
ProjectDppToMap_Restores(dpp_key, sum_lines, endpoints_only) ==
    LET moved == to_corner(to_vox(streamlines, space), origin)
    IN  /\ call' = [op |-> "project_dpp_to_map", dpp_key |-> dpp_key,
                    sum_lines |-> sum_lines, endpoints_only |-> endpoints_only]
        /\ pre' = Snapshot
        /\ result' = project_dpp_to_map(moved, data_per_point, dpp_key,
                                        sum_lines, endpoints_only)
        /\ UNCHANGED <<streamlines, space, origin, data_per_streamline,
                       data_per_point>>

ProjectDppToMap(dpp_key, sum_lines, endpoints_only) ==
    LET moved == to_corner(to_vox(streamlines, space), origin)
    IN  /\ call' = [op |-> "project_dpp_to_map", dpp_key |-> dpp_key,
                    sum_lines |-> sum_lines, endpoints_only |-> endpoints_only]
        /\ pre' = Snapshot
        /\ streamlines' = moved
        /\ space' = "vox"
        /\ origin' = "corner"
        /\ result' = project_dpp_to_map(moved, data_per_point, dpp_key,
                                        sum_lines, endpoints_only)
        /\ UNCHANGED <<data_per_streamline, data_per_point>>

----------------------------------------------------------------------------
(* The operator registry: stream_mean, stream_sum, stream_min, stream_max,  *)
(* stream_correlation and OPERATIONS                                        *)

\* An array handed to an operator is [ndim |-> 1, data |-> <<numbers>>] or
\* [ndim |-> 2, data |-> <<rows>>]; a result is [ndim |-> 0, val |-> r] or
\* [ndim |-> 1, data |-> <<r, ...>>] with r rational.
Array1(vec) == [ndim |-> 1, data |-> vec]

Array2(rows) == [ndim |-> 2, data |-> rows]

Value0(r) == [ndim |-> 0, val |-> r]

RECURSIVE SumOf(_)
SumOf(q) == IF q = <<>> THEN 0 ELSE Head(q) + SumOf(Tail(q))

RECURSIVE MinOf(_)
MinOf(q) ==
    IF Len(q) = 1 THEN q[1]
    ELSE LET m == MinOf(Tail(q)) IN IF Head(q) < m THEN Head(q) ELSE m

RECURSIVE MaxOf(_)
MaxOf(q) ==
    IF Len(q) = 1 THEN q[1]
    ELSE LET m == MaxOf(Tail(q)) IN IF Head(q) > m THEN Head(q) ELSE m

\* np.mean, np.sum, np.min, np.max over a sequence of numbers
ReduceNumbers(op_name, q) ==
    CASE op_name = "mean" -> Rat(SumOf(q), Len(q))
      [] op_name = "sum"  -> Rat(SumOf(q), 1)
      [] op_name = "min"  -> Rat(MinOf(q), 1)
      [] op_name = "max"  -> Rat(MaxOf(q), 1)

\* mutant: singleton dimensions are kept
Squeeze_Keep(q) == [ndim |-> 1, data |-> q]

\* np.squeeze of a 1-D result
Squeeze(q) == IF Len(q) = 1 THEN Value0(q[1]) ELSE [ndim |-> 1, data |-> q]

\* mutant: the reduction runs over the columns of each row (axis=1)
StreamReduce_Axis1(op_name, array) ==
    IF array.ndim = 1
    THEN Value0(ReduceNumbers(op_name, array.data))
    ELSE Squeeze([r \in 1..Len(array.data) |->
                     ReduceNumbers(op_name, array.data[r])])

\* np.squeeze(np.<op>(array, axis=0))
StreamReduce(op_name, array) ==
    IF array.ndim = 1
    THEN Value0(ReduceNumbers(op_name, array.data))
    ELSE Squeeze([c \in 1..Len(array.data[1]) |->
                     ReduceNumbers(op_name,
                                   [r \in 1..Len(array.data) |-> array.data[r][c]])])

\* One entry of np.corrcoef for the variables u, v (equal length n): the
\* Pearson coefficient S_uv / sqrt(S_uu * S_vv), kept exactly as its sign and
\* its square; not-a-number when a variance is 0 (also when n = 1).
CrossDeviation(u, v) ==
    Len(u) * SumOf([c \in 1..Len(u) |-> u[c] * v[c]]) - SumOf(u) * SumOf(v)

Pearson(u, v) ==
    LET suv == CrossDeviation(u, v)
        suu == CrossDeviation(u, u)
        svv == CrossDeviation(v, v)
    IN  IF suu * svv = 0
        THEN NaN
        ELSE Num([sign |-> IF suv > 0 THEN 1 ELSE IF suv < 0 THEN -1 ELSE 0,
                  sq |-> Rat(suv * suv, suu * svv)])

\* np.corrcoef(array1, array2): the 2x2 matrix
stream_correlation(array1, array2) ==
    << <<Pearson(array1, array1), Pearson(array1, array2)>>,
       <<Pearson(array2, array1), Pearson(array2, array2)>> >>

\* the keys of OPERATIONS
OPERATIONS == {"mean", "sum", "min", "max", "correlation"}

\* the names a caller may pass: the registry and a name that is not in it
OpNames == OPERATIONS \cup {"median"}

\* call_op(array) with one argument: stream_correlation needs two
CallOp1(op_name, array) ==
    IF op_name = "correlation"
    THEN [err |-> "TypeError"]
    ELSE [err |-> "none", value |-> StreamReduce(op_name, array)]

\* call_op(array1, array2) with two arguments: the others take one
CallOp2(op_name, array1, array2) ==
    IF op_name = "correlation"
    THEN [err |-> "none", value |-> stream_correlation(array1, array2)]
    ELSE [err |-> "TypeError"]

\* OPERATIONS[op_name](array), called directly
OperatorCall1(op_name, array) ==
    /\ call' = [op |-> "OPERATIONS", op_name |-> op_name, args |-> <<array>>]
    /\ pre' = Snapshot
    /\ result' = CallOp1(op_name, array)
    /\ UNCHANGED <<streamlines, data_per_streamline, data_per_point,
                   space, origin>>

\* OPERATIONS[op_name](array1, array2), called directly
OperatorCall2(op_name, array1, array2) ==
    /\ call' = [op |-> "OPERATIONS", op_name |-> op_name,
                args |-> <<array1, array2>>]
    /\ pre' = Snapshot
    /\ result' = CallOp2(op_name, array1, array2)
    /\ UNCHANGED <<streamlines, data_per_streamline, data_per_point,
                   space, origin>>

----------------------------------------------------------------------------
(* perform_operation_on_dpp *)

\* the cells of an operator's result
AsCells(value) ==
    IF value.ndim = 0 THEN <<Num(value.val)>>
    ELSE [c \in 1..Len(value.data) |-> Num(value.data[c])]

\* mutant: the interior rows keep the operator's value at the first point
OnDppEndpoints_NoNaN(op_name, s) ==
    LET first == CallOp1(op_name, Array1(s[1]))
        last == CallOp1(op_name, Array1(s[Len(s)]))
    IN  IF first.err # "none" THEN [err |-> first.err]
        ELSE IF last.err # "none" THEN [err |-> last.err]
        ELSE [err |-> "none",
              rows |-> [j \in 1..Len(s) |->
                          IF j = Len(s) THEN AsCells(last.value)
                          ELSE AsCells(first.value)]]

\* the body of the loop of the endpoints_only branch, for the dpp rows s of
\* one streamline
OnDppEndpoints(op_name, s) ==
    LET this_data_per_point == NanArray(Len(s), 1)
        first == CallOp1(op_name, Array1(s[1]))
        last == CallOp1(op_name, Array1(s[Len(s)]))
    IN  IF first.err # "none" THEN [err |-> first.err]
        ELSE IF last.err # "none" THEN [err |-> last.err]
        ELSE [err |-> "none",
              rows |-> AssignRow(
                           AssignRow(this_data_per_point, 1,
                                     [flat |-> AsCells(first.value)]),
                           Len(s), [flat |-> AsCells(last.value)])]

\* the body of the loop of the other branch
OnDppAllPoints(op_name, s) ==
    LET this_data_per_point ==
            [j \in 1..Len(s) |-> CallOp1(op_name, Array1(s[j]))]
    IN  IF \E j \in 1..Len(s) : this_data_per_point[j].err # "none"
        THEN [err |-> "TypeError"]
        ELSE Reshape([j \in 1..Len(s) |->
                         [flat |-> AsCells(this_data_per_point[j].value)]],
                     Len(s), 1)

\* the first error of a sequence of per-streamline outcomes, or "none"
RECURSIVE FirstError(_)
FirstError(outcomes) ==
    IF outcomes = <<>> THEN "none"
    ELSE IF Head(outcomes).err # "none" THEN Head(outcomes).err
    ELSE FirstError(Tail(outcomes))

\* mutant: the dpp key is read before the operator is looked up
perform_operation_on_dpp_KeyFirst(dpp, op_name, dpp_name, endpoints_only) ==
    IF dpp_name \notin DOMAIN dpp THEN [err |-> "missing_key"]
    ELSE IF op_name \notin OPERATIONS THEN [err |-> "unknown_operator"]
    ELSE LET per == [i \in 1..Len(dpp[dpp_name]) |->
                        IF endpoints_only
                        THEN OnDppEndpoints(op_name, dpp[dpp_name][i])
                        ELSE OnDppAllPoints(op_name, dpp[dpp_name][i])]
         IN  IF FirstError(per) # "none" THEN [err |-> FirstError(per)]
             ELSE [err |-> "none",
                   data |-> [i \in 1..Len(per) |-> per[i].rows]]

perform_operation_on_dpp(dpp, op_name, dpp_name, endpoints_only) ==
    IF op_name \notin OPERATIONS THEN [err |-> "unknown_operator"]
    ELSE IF dpp_name \notin DOMAIN dpp THEN [err |-> "missing_key"]
    ELSE LET per == [i \in 1..Len(dpp[dpp_name]) |->
                        IF endpoints_only
                        THEN OnDppEndpoints(op_name, dpp[dpp_name][i])
                        ELSE OnDppAllPoints(op_name, dpp[dpp_name][i])]
         IN  IF FirstError(per) # "none" THEN [err |-> FirstError(per)]
             ELSE [err |-> "none",
                   data |-> [i \in 1..Len(per) |-> per[i].rows]]

\* mutant: the key that was read is removed from the tractogram
PerformOperationOnDpp_ConsumesKey(op_name, dpp_name, endpoints_only) ==
    LET r == perform_operation_on_dpp(data_per_point, op_name, dpp_name,
                                      endpoints_only)
    IN  /\ call' = [op |-> "perform_operation_on_dpp", op_name |-> op_name,
                    dpp_name |-> dpp_name, endpoints_only |-> endpoints_only]
        /\ pre' = Snapshot
        /\ result' = r
        /\ data_per_point' = IF r.err = "none"
                             THEN DictDel(data_per_point, dpp_name)
                             ELSE data_per_point
        /\ UNCHANGED <<streamlines, data_per_streamline, space, origin>>

PerformOperationOnDpp(op_name, dpp_name, endpoints_only) ==
    /\ call' = [op |-> "perform_operation_on_dpp", op_name |-> op_name,
                dpp_name |-> dpp_name, endpoints_only |-> endpoints_only]
    /\ pre' = Snapshot
    /\ result' = perform_operation_on_dpp(data_per_point, op_name, dpp_name,
                                          endpoints_only)
    /\ UNCHANGED <<streamlines, data_per_streamline, data_per_point,
                   space, origin>>

----------------------------------------------------------------------------
(* perform_operation_dpp_to_dps *)

\* mutant: the endpoints branch reduces the two end rows as a 2-row array
DppToDpsStreamline_EndRows(op_name, s, endpoints_only) ==
    IF endpoints_only
    THEN CallOp1(op_name, Array2(<<s[1], s[Len(s)]>>))
    ELSE CallOp1(op_name, Array2(s))

\* mutant: the endpoints branch hands the operator the first point alone
DppToDpsStreamline_StartOnly(op_name, s, endpoints_only) ==
    IF endpoints_only
    THEN CallOp1(op_name, Array1(s[1]))
    ELSE CallOp1(op_name, Array2(s))

\* the body of either loop, for the dpp rows s of one streamline
DppToDpsStreamline(op_name, s, endpoints_only) ==
    IF endpoints_only
    THEN LET start == s[1]
             end == s[Len(s)]
             concat == start \o end
         IN  CallOp1(op_name, Array1(concat))
    ELSE LET s_np == Array2(s)
         IN  CallOp1(op_name, s_np)

perform_operation_dpp_to_dps(dpp, op_name, dpp_name, endpoints_only) ==
    IF op_name \notin OPERATIONS THEN [err |-> "unknown_operator"]
    ELSE IF dpp_name \notin DOMAIN dpp THEN [err |-> "missing_key"]
    ELSE LET per == [i \in 1..Len(dpp[dpp_name]) |->
                        DppToDpsStreamline(op_name, dpp[dpp_name][i],
                                           endpoints_only)]
         IN  IF FirstError(per) # "none" THEN [err |-> FirstError(per)]
             ELSE [err |-> "none",
                   data |-> [i \in 1..Len(per) |-> per[i].value]]

PerformOperationDppToDps(op_name, dpp_name, endpoints_only) ==
    /\ call' = [op |-> "perform_operation_dpp_to_dps", op_name |-> op_name,
                dpp_name |-> dpp_name, endpoints_only |-> endpoints_only]
    /\ pre' = Snapshot
    /\ result' = perform_operation_dpp_to_dps(data_per_point, op_name,
                                              dpp_name, endpoints_only)
    /\ UNCHANGED <<streamlines, data_per_streamline, data_per_point,
                   space, origin>>

----------------------------------------------------------------------------
(* perform_pairwise_streamline_operation_on_endpoints *)

\* mutant: the diagonal element [0, 0] is taken
PairwiseStreamline_Diagonal(op_name, s) ==
    LET r == CallOp2(op_name, s[1], s[Len(s)])
    IN  IF r.err # "none" THEN r
        ELSE [err |-> "none", value |-> r.value[1][1]]

\* call_op(s[0], s[-1])[0, 1]
PairwiseStreamline(op_name, s) ==
    LET r == CallOp2(op_name, s[1], s[Len(s)])
    IN  IF r.err # "none" THEN r
        ELSE [err |-> "none", value |-> r.value[1][2]]

perform_pairwise_streamline_operation_on_endpoints(dpp, op_name, dpp_name) ==
    IF op_name \notin OPERATIONS THEN [err |-> "unknown_operator"]
    ELSE IF dpp_name \notin DOMAIN dpp THEN [err |-> "missing_key"]
    ELSE LET per == [i \in 1..Len(dpp[dpp_name]) |->
                        PairwiseStreamline(op_name, dpp[dpp_name][i])]
         IN  IF FirstError(per) # "none" THEN [err |-> FirstError(per)]
             ELSE [err |-> "none",
                   data |-> [i \in 1..Len(per) |-> per[i].value]]

PerformPairwise(op_name, dpp_name) ==
    /\ call' = [op |-> "perform_pairwise_streamline_operation_on_endpoints",
                op_name |-> op_name, dpp_name |-> dpp_name]
    /\ pre' = Snapshot
    /\ result' = perform_pairwise_streamline_operation_on_endpoints(
                     data_per_point, op_name, dpp_name)
    /\ UNCHANGED <<streamlines, data_per_streamline, data_per_point,
                   space, origin>>

----------------------------------------------------------------------------
(* scripts/scil_generate_gradient_sampling.py: main                         *)

\* A file name is a root and an extension; os.path.splitext gives the root.
FileName(root, ext) == [root |-> root, ext |-> ext]

splitext(name) == name.root

\* out_filename: two names with --fsl, one with --mrtrix
OutFilename(out_basename, fsl) ==
    IF fsl
    THEN <<FileName(out_basename, ".bval"), FileName(out_basename, ".bvec")>>
    ELSE <<FileName(out_basename, ".b")>>

\* b0_every after "only a b0 at the beginning"; K is the number of samples
B0Every(b0_every, K) == IF b0_every > K \/ b0_every < 0 THEN K + 1 ELSE b0_every

\* parser.error when --bvals does not give one distinct value per shell
BvalsError(args) ==
    /\ args.bvals # <<>>
    /\ Cardinality({args.bvals[n] : n \in 1..Len(args.bvals)}) # Len(args.nb_samples)

\* points.shape[0] at the saving step: generate_gradient_sampling returns one
\* row of 3 coordinates per sample, add_b0s inserts nb_b0 rows (a number its
\* caller does not control), and swap_sampling_eddy,
\* compute_min_duty_cycle_bruteforce and correct_b0s_philips keep the shape
PointsRows(args, nb_b0) ==
    LET K == SumOf(args.nb_samples)
    IN  IF B0Every(args.b0_every, K) # 0 THEN K + nb_b0 ELSE K

\* the files written by the saving step
SavedFiles(args, shape0) ==
    LET out_filename == OutFilename(splitext(args.out_basename), args.fsl)
    IN  IF args.fsl
        THEN {out_filename[1], out_filename[2]}
        ELSE IF shape0 # 3
        THEN {out_filename[1]}
        ELSE {}

\* main(): the outcome of one run of the script, no output file existing
\* before it
main(args, nb_b0) ==
    IF BvalsError(args)
    THEN [err |-> "parser_error", saved |-> {}]
    ELSE LET shape0 == PointsRows(args, nb_b0)
         IN  [err |-> "none", shape0 |-> shape0,
              saved |-> SavedFiles(args, shape0)]

\* one run of the script
GenerateGradientSampling(args, nb_b0) ==
    /\ call' = [op |-> "scil_generate_gradient_sampling", args |-> args]
    /\ pre' = Snapshot
    /\ result' = main(args, nb_b0)
    /\ UNCHANGED <<streamlines, data_per_streamline, data_per_point,
                   space, origin>>

----------------------------------------------------------------------------
(* Initial states: a loaded tractogram that satisfies the data model *)

Geometries ==
    UNION {{[i \in 1..n |-> PathStreamline(i, lens[i])] : lens \in [1..n -> 1..MaxPoints]}
           : n \in 0..MaxStreamlines}

Init ==
    /\ \E g \in Geometries, sp \in Spaces, org \in Origins :
          /\ streamlines = [i \in 1..Len(g) |->
                               [j \in 1..Len(g[i]) |-> FromVoxCorner(g[i][j], sp, org)]]
          /\ space = sp
          /\ origin = org
    /\ \E ks \in SUBSET KeyNames :
          data_per_streamline =
              [k \in ks |-> [i \in 1..Len(streamlines) |-> LoadedDps(k, i)]]
    /\ \E kp \in SUBSET KeyNames :
          data_per_point =
              [k \in kp |-> [i \in 1..Len(streamlines) |->
                               [j \in 1..Len(streamlines[i]) |-> LoadedDpp(k, i, j)]]]
    /\ call = [op |-> "load"]
    /\ pre = Snapshot
    /\ result = [err |-> "none"]

NextConvert ==
    \E keys \in KeyLists, overwrite \in BOOLEAN : Convert(keys, overwrite)

NextProjectMap ==
    \E map \in MapVolumes, endpoints_only \in BOOLEAN :
        ProjectMap(map, endpoints_only)

NextProjectDppToMap ==
    \E dpp_key \in KeyNames, sum_lines \in BOOLEAN, endpoints_only \in BOOLEAN :
        ProjectDppToMap(dpp_key, sum_lines, endpoints_only)

NextPerformOperationOnDpp ==
    \E op_name \in OpNames, dpp_name \in KeyNames, endpoints_only \in BOOLEAN :
        PerformOperationOnDpp(op_name, dpp_name, endpoints_only)

NextPerformOperationDppToDps ==
    \E op_name \in OpNames, dpp_name \in KeyNames, endpoints_only \in BOOLEAN :
        PerformOperationDppToDps(op_name, dpp_name, endpoints_only)

NextPerformPairwise ==
    \E op_name \in OpNames, dpp_name \in KeyNames :
        PerformPairwise(op_name, dpp_name)

\* the arrays handed to the operators: up to MaxRows rows drawn from three
\* rows of 1 or 2 columns (the widths of the dpp keys)
MaxRows == 2

RegistryRows(k) ==
    IF k = "a" THEN {<<1>>, <<2>>, <<4>>} ELSE {<<1, 2>>, <<3, 4>>, <<4, 1>>}

RegistryArrays ==
    UNION {{Array1(v) : v \in RegistryRows(k)} : k \in KeyNames}
    \cup UNION {UNION {{Array2(rows) : rows \in [1..n -> RegistryRows(k)]}
                       : n \in 1..MaxRows} : k \in KeyNames}

NextOperatorCall1 ==
    \E op_name \in OPERATIONS, array \in RegistryArrays :
        OperatorCall1(op_name, array)

NextOperatorCall2 ==
    \E op_name \in OPERATIONS, k \in KeyNames :
        \E array1 \in RegistryRows(k), array2 \in RegistryRows(k) :
            OperatorCall2(op_name, array1, array2)

\* the command lines of scil_generate_gradient_sampling: up to MaxShells
\* shells of 1..MaxSamples samples, --fsl or --mrtrix (exactly one),
\* --bvals (<<>> when --b_lin_max or --q_lin_max is given instead)
MaxShells == 2

MaxSamples == 3

MaxB0 == 2

BvalLists == UNION {[1..n -> {1000, 2000}] : n \in 0..MaxShells}

CommandLines ==
    [nb_samples : UNION {[1..n -> 1..MaxSamples] : n \in 1..MaxShells},
     out_basename : {FileName("out", ""), FileName("out", ".txt")},
     fsl : BOOLEAN,
     mrtrix : BOOLEAN,
     eddy : BOOLEAN,
     duty : BOOLEAN,
     b0_every : {-1, 0, 2},
     b0_end : BOOLEAN,
     bvals : BvalLists]

\* the script runs once, from the state in which nothing has run yet
NextGenerateGradientSampling ==
    /\ call.op = "load"
    /\ \E args \in CommandLines, nb_b0 \in 1..MaxB0 :
          /\ args.fsl # args.mrtrix
          /\ GenerateGradientSampling(args, nb_b0)

Next ==
    \/ NextConvert
    \/ NextProjectMap
    \/ NextProjectDppToMap
    \/ NextPerformOperationOnDpp
    \/ NextPerformOperationDppToDps
    \/ NextPerformPairwise
    \/ NextOperatorCall1
    \/ NextOperatorCall2
    \/ NextGenerateGradientSampling

Spec == Init /\ [][Next]_vars

\* convert_dps_to_dpp alone, on tractograms in the convention they are
\* loaded with (the function reads neither space nor origin)
InitConvert == Init /\ space = "rasmm" /\ origin = "center"

SpecConvert == InitConvert /\ [][NextConvert]_vars

\* the two projections, on tractograms in every convention (neither reads
\* data_per_streamline, which holds one key)
InitProject == Init /\ DOMAIN data_per_streamline = {"b"}

NextProject ==
    \/ NextProjectMap
    \/ NextProjectDppToMap

SpecProject == InitProject /\ [][NextProject]_vars

\* The functions that return new values without touching the tractogram, on
\* tractograms whose dpp values are drawn for the operators: key "a" holds
\* one number per point (1, 2, 3, 4 along the odd streamlines; 1, 2, 3, 10
\* along the even ones, the last point being the one set apart), key "b" a
\* pair per point.
MaxOpPoints == 4

OpsDpp(k, i, j, n) ==
    IF k = "a"
    THEN IF i % 2 = 0 /\ j = n /\ n >= 2 THEN <<j + 6>> ELSE <<j>>
    ELSE <<j + i, 10 - 3 * j>>

OpsGeometries ==
    UNION {{[i \in 1..n |-> PathStreamline(i, lens[i])] : lens \in [1..n -> 1..MaxOpPoints]}
           : n \in 0..MaxStreamlines}

InitOps ==
    /\ \E g \in OpsGeometries :
          streamlines = [i \in 1..Len(g) |->
                            [j \in 1..Len(g[i]) |->
                                FromVoxCorner(g[i][j], "rasmm", "center")]]
    /\ space = "rasmm"
    /\ origin = "center"
    /\ data_per_streamline =
          [k \in {"a"} |-> [i \in 1..Len(streamlines) |-> LoadedDps(k, i)]]
    /\ \E kp \in {{"a", "b"}, {"b"}} :
          data_per_point =
              [k \in kp |-> [i \in 1..Len(streamlines) |->
                               [j \in 1..Len(streamlines[i]) |->
                                   OpsDpp(k, i, j, Len(streamlines[i]))]]]
    /\ call = [op |-> "load"]
    /\ pre = Snapshot
    /\ result = [err |-> "none"]

NextOps ==
    \/ NextProjectMap
    \/ NextPerformOperationOnDpp
    \/ NextPerformOperationDppToDps
    \/ NextPerformPairwise

SpecOps == InitOps /\ [][NextOps]_vars

\* The operators of the registry called directly; the tractogram plays no
\* part and has no streamline.
InitRegistry ==
    /\ Init
    /\ streamlines = <<>>
    /\ space = "rasmm"
    /\ origin = "center"
    /\ DOMAIN data_per_streamline = {}
    /\ DOMAIN data_per_point = {}

NextRegistry ==
    \/ NextOperatorCall1
    \/ NextOperatorCall2

SpecRegistry == InitRegistry /\ [][NextRegistry]_vars

\* scil_generate_gradient_sampling run once; it reads no tractogram
SpecGradient == InitRegistry /\ [][NextGenerateGradientSampling]_vars

----------------------------------------------------------------------------
(* Properties of convert_dps_to_dpp *)

IsConvert == call.op = "convert_dps_to_dpp"

ConvertOk == IsConvert /\ result.err = "none"

\* position n of the key list names a key that is not in dps when the loop
\* gets there: it never was, or an earlier position has moved it
AbsentAt(n) ==
    \/ call.keys[n] \notin DOMAIN pre.dps
    \/ \E m \in 1..(n - 1) : call.keys[m] = call.keys[n]

CollidesAt(n) ==
    /\ ~AbsentAt(n)
    /\ call.keys[n] \in DOMAIN pre.dpp
    /\ ~call.overwrite

\* the loop reaches position n
Reaches(n) == \A m \in 1..(n - 1) : ~AbsentAt(m) /\ ~CollidesAt(m)

\* the per-point broadcast of the dps values key k had before the call
ExpectedDpp(k) ==
    [i \in 1..Len(streamlines) |->
        [j \in 1..Len(streamlines[i]) |-> pre.dps[k][i]]]

\* C1: after a successful convert_dps_to_dpp, for every key of the list and
\* every streamline i, the dpp entry has as many elements as streamline i has
\* points and every element equals the dps value the key held for i before.
C1_BroadcastShapeAndContent ==
    ConvertOk =>
        \A n \in 1..Len(call.keys) :
            LET k == call.keys[n]
            IN  /\ k \in DOMAIN data_per_point
                /\ Len(data_per_point[k]) = Len(streamlines)
                /\ \A i \in 1..Len(streamlines) :
                      /\ Len(data_per_point[k][i]) = Len(streamlines[i])
                      /\ \A j \in 1..Len(streamlines[i]) :
                            data_per_point[k][i][j] = pre.dps[k][i]

C1_Witness ==
    /\ ConvertOk
    /\ call.keys = <<"b", "a">>
    /\ Len(streamlines) = 2
    /\ Len(streamlines[1]) = 3
    /\ Len(streamlines[2]) = 1
    /\ data_per_point["b"][1] = <<pre.dps["b"][1], pre.dps["b"][1], pre.dps["b"][1]>>

\* C2: after a successful convert_dps_to_dpp every key of the list is in dpp
\* and not in dps, and the call returns the tractogram it was given.
C2_KeysMoved ==
    ConvertOk =>
        /\ \A n \in 1..Len(call.keys) :
              /\ call.keys[n] \in DOMAIN data_per_point
              /\ call.keys[n] \notin DOMAIN data_per_streamline
        /\ result.ret = "sft"

C2_Witness ==
    /\ ConvertOk
    /\ Len(call.keys) = 2
    /\ DOMAIN pre.dps = {"a", "b"}
    /\ DOMAIN pre.dpp = {}
    /\ DOMAIN data_per_streamline = {}
    /\ DOMAIN data_per_point = {"a", "b"}
    /\ Len(streamlines) = 2

\* C3: if convert_dps_to_dpp raises, the tractogram is exactly as before the
\* call (stated as the claim has it; the loop converts the keys that precede
\* the failing one before it raises).
C3_ErrorLeavesUnmodified ==
    (IsConvert /\ result.err # "none") =>
        /\ data_per_streamline = pre.dps
        /\ data_per_point = pre.dpp

\* C4: a key that is not in dps at the moment it is processed makes the call
\* fail with the missing-key error for that key; the key is neither skipped
\* nor given a dpp entry it did not have.
C4_MissingKeyRaises ==
    IsConvert =>
        \A n \in 1..Len(call.keys) :
            (Reaches(n) /\ AbsentAt(n)) =>
                LET k == call.keys[n]
                IN  /\ result.err = "missing_key"
                    /\ result.key = k
                    /\ result.done = n - 1
                    /\ k \notin DOMAIN data_per_streamline
                    /\ k \notin DOMAIN pre.dps =>
                          /\ (k \in DOMAIN data_per_point) = (k \in DOMAIN pre.dpp)
                          /\ k \in DOMAIN data_per_point =>
                                data_per_point[k] = pre.dpp[k]

C4_Witness ==
    /\ IsConvert
    /\ call.keys = <<"a", "b">>
    /\ DOMAIN pre.dps = {"a"}
    /\ DOMAIN pre.dpp = {}
    /\ result.err = "missing_key"
    /\ result.key = "b"
    /\ Len(streamlines) > 0

\* C5: a key that is in dps and already in dpp when it is processed: without
\* overwrite the call fails with the key-collision error for that key; with
\* overwrite the key is converted and its dpp entry becomes the broadcast of
\* the dps values (a call with that key alone succeeds).
C5_CollisionOrOverwrite ==
    IsConvert =>
        \A n \in 1..Len(call.keys) :
            LET k == call.keys[n]
            IN  (Reaches(n) /\ ~AbsentAt(n) /\ k \in DOMAIN pre.dpp) =>
                    IF call.overwrite
                    THEN /\ result.done >= n
                         /\ k \in DOMAIN data_per_point
                         /\ data_per_point[k] = ExpectedDpp(k)
                         /\ k \notin DOMAIN data_per_streamline
                         /\ Len(call.keys) = 1 => result.err = "none"
                    ELSE /\ result.err = "key_collision"
                         /\ result.key = k
                         /\ result.done = n - 1
                         /\ data_per_point[k] = pre.dpp[k]
                         /\ k \in DOMAIN data_per_streamline

C5_Witness ==
    /\ ConvertOk
    /\ call.overwrite
    /\ call.keys = <<"a">>
    /\ "a" \in DOMAIN pre.dps
    /\ "a" \in DOMAIN pre.dpp
    /\ Len(streamlines) = 2
    /\ Len(streamlines[2]) = 2
    /\ data_per_point["a"] # pre.dpp["a"]

\* the invariants of the data model
DataModelInvariant ==
    /\ \A k \in DOMAIN data_per_streamline :
          Len(data_per_streamline[k]) = Len(streamlines)
    /\ \A k \in DOMAIN data_per_point :
          /\ Len(data_per_point[k]) = Len(streamlines)
          /\ \A i \in 1..Len(streamlines) :
                Len(data_per_point[k][i]) = Len(streamlines[i])

\* C6: from a tractogram that satisfies the data-model invariants, every
\* sequence of convert_dps_to_dpp calls, succeeding or failing, leaves one
\* dps value per streamline and one dpp value per point of every streamline.
C6_InvariantsPreserved == DataModelInvariant

\* a second call, made after an earlier call converted key "a", fails after
\* converting "b"
C6_Witness ==
    /\ IsConvert
    /\ result.err = "missing_key"
    /\ result.done = 1
    /\ "a" \in DOMAIN pre.dpp
    /\ Len(streamlines) = 2
    /\ Len(streamlines[1]) = 3
    /\ pre.dpp["a"][1] = <<LoadedDps("a", 1), LoadedDps("a", 1), LoadedDps("a", 1)>>
    /\ DOMAIN data_per_point = {"a", "b"}

----------------------------------------------------------------------------
(* Properties of project_map_to_streamlines *)

IsProjectMap == call.op = "project_map_to_streamlines"

\* the number of channels of the map of the call
Channels == IF Len(call.map.shape) = 4 THEN call.map.shape[4] ELSE 1

\* the map's value, channel c, at point j of streamline i under the
\* tractogram's space and origin
MapValueAtPoint(i, j, c) ==
    Num(MapData(VoxelOf(streamlines[i][j], space, origin), c))

\* C7: with endpoints_only false, project_map_to_streamlines returns one
\* array per streamline, one row per point, one column per channel (1 for a
\* 3D map); row j of array i is the map's value at point j of streamline i
\* under the tractogram's space and origin.
C7_ProjectAllPoints ==
    (IsProjectMap /\ ~call.endpoints_only) =>
        /\ result.err = "none"
        /\ Len(result.streamline_data) = Len(streamlines)
        /\ \A i \in 1..Len(streamlines) :
              /\ Len(result.streamline_data[i]) = Len(streamlines[i])
              /\ \A j \in 1..Len(streamlines[i]) :
                    /\ Len(result.streamline_data[i][j]) = Channels
                    /\ \A c \in 1..Channels :
                          result.streamline_data[i][j][c] = MapValueAtPoint(i, j, c)

C7_Witness ==
    /\ IsProjectMap
    /\ ~call.endpoints_only
    /\ call.map = Map4D(2)
    /\ space = "rasmm"
    /\ origin = "center"
    /\ Len(streamlines) = 2
    /\ Len(streamlines[1]) = 3
    /\ result.streamline_data[1][2] = <<Num(MapData(<<1, 1, 0>>, 1)),
                                        Num(MapData(<<1, 1, 0>>, 2))>>
    /\ result.streamline_data[1][1] = <<Num(MapData(<<0, 0, 0>>, 1)),
                                        Num(MapData(<<0, 0, 0>>, 2))>>

----------------------------------------------------------------------------
(* Properties of project_dpp_to_map *)

IsDppToMap == call.op = "project_dpp_to_map"

RECURSIVE SumSeq(_)
SumSeq(q) == IF q = <<>> THEN 0 ELSE Head(q) + SumSeq(Tail(q))

\* the integer a coordinate in half units truncates to
Truncated(c) ==
    CHOOSE t \in -(Abs(c) + 1)..(Abs(c) + 1) :
        \/ c >= 0 /\ 2 * t <= c /\ c < 2 * t + 2
        \/ c < 0 /\ 2 * t >= c /\ c > 2 * t - 2

TruncatedVoxel(pt) == <<Truncated(pt[1]), Truncated(pt[2]), Truncated(pt[3])>>

\* the selected points of streamline i: every point, or the first and the last
Selection(i) ==
    IF call.endpoints_only THEN <<1, Len(streamlines[i])>>
    ELSE [j \in 1..Len(streamlines[i]) |-> j]

\* the sum of the dpp values and the number of the selected points that
\* truncate to voxel v
SumAtVoxel(v) ==
    SumSeq([i \in 1..Len(streamlines) |->
              SumSeq([n \in 1..Len(Selection(i)) |->
                        IF TruncatedVoxel(streamlines[i][Selection(i)[n]]) = v
                        THEN pre.dpp[call.dpp_key][i][Selection(i)[n]][1]
                        ELSE 0])])

VisitsAtVoxel(v) ==
    SumSeq([i \in 1..Len(streamlines) |->
              SumSeq([n \in 1..Len(Selection(i)) |->
                        IF TruncatedVoxel(streamlines[i][Selection(i)[n]]) = v
                        THEN 1 ELSE 0])])

\* the key of the call holds one number per point
ScalarKey ==
    /\ call.dpp_key \in DOMAIN pre.dpp
    /\ \A i \in 1..Len(streamlines) : \A j \in 1..Len(streamlines[i]) :
          Len(pre.dpp[call.dpp_key][i][j]) = 1

\* C9: with sum_lines true, project_dpp_to_map returns an array over the
\* tractogram's grid in which each voxel holds the sum of the dpp values of
\* the selected points (all points, or first and last with endpoints_only)
\* whose truncated voxel coordinate is that voxel, 0 where there is none.
C9_SumLines ==
    (IsDppToMap /\ call.sum_lines) =>
        /\ ScalarKey => result.err = "none"
        /\ result.err = "none" =>
              /\ DOMAIN result.the_map = Voxels
              /\ \A v \in Voxels :
                    /\ result.the_map[v] = [num |-> SumAtVoxel(v), den |-> 1]
                    /\ VisitsAtVoxel(v) = 0 => result.the_map[v].num = 0

C9_Witness ==
    /\ IsDppToMap
    /\ call.sum_lines
    /\ ~call.endpoints_only
    /\ call.dpp_key = "a"
    /\ pre.space = "rasmm"
    /\ pre.origin = "center"
    /\ result.err = "none"
    /\ Len(streamlines) = 2
    /\ VisitsAtVoxel(<<1, 1, 0>>) = 4
    /\ VisitsAtVoxel(<<1, 0, 0>>) = 0
    /\ result.the_map[<<1, 1, 0>>].num = SumAtVoxel(<<1, 1, 0>>)
    /\ result.the_map[<<1, 1, 0>>].num > 0

\* C10: with sum_lines false, every voxel visited by a selected point holds
\* the accumulated sum divided by the number of selected points in it, and
\* every other voxel holds 0; no division error is raised.
C10_Average ==
    (IsDppToMap /\ ~call.sum_lines) =>
        /\ ScalarKey => result.err = "none"
        /\ result.err = "none" =>
              /\ DOMAIN result.the_map = Voxels
              /\ \A v \in Voxels :
                    IF VisitsAtVoxel(v) >= 1
                    THEN /\ result.the_map[v].num * VisitsAtVoxel(v) =
                               SumAtVoxel(v) * result.the_map[v].den
                         /\ result.the_map[v].den >= 1
                    ELSE result.the_map[v] = [num |-> 0, den |-> 1]

C10_Witness ==
    /\ IsDppToMap
    /\ ~call.sum_lines
    /\ call.dpp_key = "a"
    /\ result.err = "none"
    /\ Len(streamlines) = 1
    /\ VisitsAtVoxel(<<1, 1, 0>>) = 2
    /\ VisitsAtVoxel(<<1, 0, 0>>) = 0
    /\ result.the_map[<<1, 1, 0>>].den = 2
    /\ result.the_map[<<1, 0, 0>>] = [num |-> 0, den |-> 1]

\* the number of selected points of the tractogram that truncate to voxel v
\* (a point that is both the first and the last of its streamline is one
\* point)
PointsAtVoxel(v) ==
    Cardinality({ij \in UNION {{<<i, Selection(i)[n]>> : n \in 1..Len(Selection(i))}
                                : i \in 1..Len(streamlines)} :
                    TruncatedVoxel(streamlines[ij[1]][ij[2]]) = v})

\* what the call would have returned with the other value of sum_lines
OtherAggregation ==
    project_dpp_to_map(streamlines, data_per_point, call.dpp_key,
                       ~call.sum_lines, call.endpoints_only)

\* C11: for either value of endpoints_only, if every voxel is visited by at
\* most one point over all streamlines, project_dpp_to_map returns the same
\* map with sum_lines true and with sum_lines false (stated as the claim has
\* it; with endpoints_only the only point of a one-point streamline is
\* accumulated twice, so the sum is twice the average).
C11_SumEqualsAverage ==
    (IsDppToMap /\ result.err = "none" /\ ScalarKey
                /\ \A v \in Voxels : PointsAtVoxel(v) <= 1) =>
        result.the_map = OtherAggregation.the_map

\* C12: after project_dpp_to_map, from any space and origin, the tractogram
\* is in voxel space with corner origin (its points are the same points,
\* expressed in that convention) and its dps and dpp are unchanged.
C12_ForcedVoxCorner ==
    IsDppToMap =>
        /\ space = "vox"
        /\ origin = "corner"
        /\ data_per_streamline = pre.dps
        /\ data_per_point = pre.dpp
        /\ Len(streamlines) = Len(pre.streamlines)
        /\ \A i \in 1..Len(streamlines) :
              /\ Len(streamlines[i]) = Len(pre.streamlines[i])
              /\ \A j \in 1..Len(streamlines[i]) :
                    FromVoxCorner(streamlines[i][j], pre.space, pre.origin) =
                        pre.streamlines[i][j]

C12_Witness ==
    /\ IsDppToMap
    /\ result.err = "none"
    /\ pre.space = "rasmm"
    /\ pre.origin = "center"
    /\ space = "vox"
    /\ origin = "corner"
    /\ Len(streamlines) = 2
    /\ streamlines # pre.streamlines
    /\ DOMAIN data_per_streamline = {"b"}
    /\ DOMAIN data_per_point = {"a", "b"}

----------------------------------------------------------------------------
(* Properties of the operations that return new values *)

IsOnDpp == call.op = "perform_operation_on_dpp"

IsDppToDps == call.op = "perform_operation_dpp_to_dps"

IsPairwise == call.op = "perform_pairwise_streamline_operation_on_endpoints"

Reductions == {"mean", "sum", "min", "max"}

\* the dpp rows of streamline i under the key of the call
Rows(i) == data_per_point[call.dpp_name][i]

\* r is the value of the reduction op_name over the numbers q
IsReduction(op_name, q, r) ==
    /\ r.den >= 1
    /\ CASE op_name = "mean" -> r.num * Len(q) = SumSeq(q) * r.den
          [] op_name = "sum"  -> r.num = SumSeq(q) * r.den
          [] op_name = "min"  -> /\ r.den = 1
                                 /\ \E n \in 1..Len(q) : q[n] = r.num
                                 /\ \A n \in 1..Len(q) : r.num <= q[n]
          [] op_name = "max"  -> /\ r.den = 1
                                 /\ \E n \in 1..Len(q) : q[n] = r.num
                                 /\ \A n \in 1..Len(q) : r.num >= q[n]

C14_OnDppRows ==
    IsOnDpp =>
        /\ (call.op_name \in Reductions /\ call.dpp_name \in DOMAIN data_per_point)
              => result.err = "none"
        /\ result.err = "none" =>
              /\ Len(result.data) = Len(streamlines)
              /\ \A i \in 1..Len(streamlines) :
                    LET n == Len(streamlines[i])
                        arr == result.data[i]
                    IN  /\ Len(arr) = n
                        /\ \A j \in 1..n :
                              /\ Len(arr[j]) = 1
                              /\ IF call.endpoints_only /\ j # 1 /\ j # n
                                 THEN arr[j][1].nan
                                 ELSE /\ ~arr[j][1].nan
                                      /\ IsReduction(call.op_name, Rows(i)[j],
                                                     arr[j][1].val)

C14_Witness ==
    /\ IsOnDpp
    /\ call.endpoints_only
    /\ call.op_name = "mean"
    /\ call.dpp_name = "b"
    /\ Len(streamlines) = 2
    /\ Len(streamlines[1]) = 4
    /\ data_per_point["b"][1][1] = <<2, 7>>
    /\ result.err = "none"
    /\ result.data[1] = << <<Num([num |-> 9, den |-> 2])>>, <<NaN>>, <<NaN>>,
                           <<Num([num |-> 3, den |-> 2])>> >>

\* C15: with an operator name that is not mean, sum, min, max or
\* correlation, perform_operation_on_dpp, perform_operation_dpp_to_dps and
\* perform_pairwise_streamline_operation_on_endpoints fail with the
\* unknown-operator error before the dpp key is read and without output,
\* for every tractogram, one without streamlines included.
C15_UnknownOperator ==
    ((IsOnDpp \/ IsDppToDps \/ IsPairwise)
        /\ call.op_name \notin {"mean", "sum", "min", "max", "correlation"}) =>
        result = [err |-> "unknown_operator"]

C15_Witness ==
    /\ IsOnDpp
    /\ call.op_name = "median"
    /\ call.dpp_name = "a"
    /\ "a" \notin DOMAIN data_per_point
    /\ Len(streamlines) = 0
    /\ result.err = "unknown_operator"

\* column c of the dpp rows of streamline i
Column(i, c) == [j \in 1..Len(Rows(i)) |-> Rows(i)[j][c]]

\* C16: without endpoints_only, perform_operation_dpp_to_dps returns one
\* value per streamline, in order: the operator (mean, sum, min, max)
\* applied over the rows of the streamline's per-point values; for one
\* streamline with values 1, 2, 3, 4 and mean it is 2.5.
C16_DppToDpsWhole ==
    (IsDppToDps /\ ~call.endpoints_only /\ call.op_name \in Reductions
                /\ call.dpp_name \in DOMAIN data_per_point) =>
        /\ result.err = "none"
        /\ Len(result.data) = Len(streamlines)
        /\ \A i \in 1..Len(streamlines) :
              LET w == Len(Rows(i)[1])
                  val == result.data[i]
              IN  IF w = 1
                  THEN /\ val.ndim = 0
                       /\ IsReduction(call.op_name, Column(i, 1), val.val)
                  ELSE /\ val.ndim = 1
                       /\ Len(val.data) = w
                       /\ \A c \in 1..w :
                             IsReduction(call.op_name, Column(i, c), val.data[c])
        /\ (Len(streamlines) = 1 /\ call.op_name = "mean"
               /\ Rows(1) = << <<1>>, <<2>>, <<3>>, <<4>> >>) =>
              result.data = <<[ndim |-> 0, val |-> [num |-> 5, den |-> 2]]>>

C16_Witness ==
    /\ IsDppToDps
    /\ ~call.endpoints_only
    /\ call.op_name = "mean"
    /\ call.dpp_name = "a"
    /\ result.err = "none"
    /\ Len(streamlines) = 1
    /\ data_per_point["a"][1] = << <<1>>, <<2>>, <<3>>, <<4>> >>
    /\ result.data = <<[ndim |-> 0, val |-> [num |-> 5, den |-> 2]]>>

\* what the call would have returned without endpoints_only
WholeStreamlines ==
    perform_operation_dpp_to_dps(data_per_point, call.op_name, call.dpp_name,
                                 FALSE)

\* C17: with endpoints_only, perform_operation_dpp_to_dps returns for each
\* streamline the operator applied to the first point's vector followed by
\* the last point's vector, the interior points being ignored; for the
\* values 1, 2, 3, 10 and mean it is 5.5, against 4.0 without endpoints_only.
C17_DppToDpsEndpoints ==
    (IsDppToDps /\ call.endpoints_only /\ call.op_name \in Reductions
                /\ call.dpp_name \in DOMAIN data_per_point) =>
        /\ result.err = "none"
        /\ Len(result.data) = Len(streamlines)
        /\ \A i \in 1..Len(streamlines) :
              /\ result.data[i].ndim = 0
              /\ IsReduction(call.op_name,
                             Rows(i)[1] \o Rows(i)[Len(Rows(i))],
                             result.data[i].val)
              /\ (call.op_name = "mean"
                    /\ Rows(i) = << <<1>>, <<2>>, <<3>>, <<10>> >>) =>
                    /\ result.data[i].val = [num |-> 11, den |-> 2]
                    /\ WholeStreamlines.data[i].val = [num |-> 4, den |-> 1]

C17_Witness ==
    /\ IsDppToDps
    /\ call.endpoints_only
    /\ call.op_name = "mean"
    /\ call.dpp_name = "a"
    /\ result.err = "none"
    /\ Len(streamlines) = 2
    /\ data_per_point["a"][2] = << <<1>>, <<2>>, <<3>>, <<10>> >>
    /\ result.data[2].val = [num |-> 11, den |-> 2]

\* C18: for a streamline of one point whose value is the number v,
\* perform_operation_dpp_to_dps with mean, sum, min or max and either value
\* of endpoints_only returns v (stated as the claim has it; with
\* endpoints_only the point is concatenated with itself and sum gives 2 v).
C18_SinglePointValue ==
    (IsDppToDps /\ call.op_name \in Reductions
                /\ call.dpp_name \in DOMAIN data_per_point) =>
        /\ result.err = "none"
        /\ \A i \in 1..Len(streamlines) :
              (Len(Rows(i)) = 1 /\ Len(Rows(i)[1]) = 1) =>
                  result.data[i] =
                      [ndim |-> 0, val |-> [num |-> Rows(i)[1][1], den |-> 1]]

\* C19: called with a valid operator and a key that is not in dpp,
\* project_dpp_to_map, perform_operation_on_dpp,
\* perform_operation_dpp_to_dps and
\* perform_pairwise_streamline_operation_on_endpoints fail with the
\* missing-key error, for every tractogram (stated as the claim has it;
\* project_dpp_to_map reads the key inside its loops only).
C19_MissingDppKey ==
    /\ (IsDppToMap /\ call.dpp_key \notin DOMAIN pre.dpp) =>
          result.err = "KeyError"
    /\ ((IsOnDpp \/ IsDppToDps \/ IsPairwise)
           /\ call.op_name \in OPERATIONS
           /\ call.dpp_name \notin DOMAIN pre.dpp) =>
          result.err = "missing_key"

\* x is the Pearson coefficient of the vectors u and v, as a cell
IsPearson(u, v, x) ==
    LET n == Len(u)
        suv == n * SumSeq([c \in 1..n |-> u[c] * v[c]]) - SumSeq(u) * SumSeq(v)
        suu == n * SumSeq([c \in 1..n |-> u[c] * u[c]]) - SumSeq(u) * SumSeq(u)
        svv == n * SumSeq([c \in 1..n |-> v[c] * v[c]]) - SumSeq(v) * SumSeq(v)
    IN  IF suu = 0 \/ svv = 0
        THEN x.nan
        ELSE /\ ~x.nan
             /\ x.val.sq.num * suu * svv = suv * suv * x.val.sq.den
             /\ x.val.sign * suv >= 0
             /\ (x.val.sign = 0) = (suv = 0)

C21_PairwiseRejectsReductions ==
    (IsPairwise /\ call.op_name \in Reductions) =>
        /\ result.err # "none"
        /\ "data" \notin DOMAIN result

\* C23: perform_operation_on_dpp and perform_operation_dpp_to_dps return a
\* result for each of the five names mean, sum, min, max and correlation
\* and every tractogram that has the dpp key (stated as the claim has it;
\* stream_correlation takes two arrays and is called with one).
C23_AcceptsFiveNames ==
    ((IsOnDpp \/ IsDppToDps)
        /\ call.op_name \in {"mean", "sum", "min", "max", "correlation"}
        /\ call.dpp_name \in DOMAIN data_per_point) =>
        /\ result.err = "none"
        /\ Len(result.data) = Len(streamlines)

IsOperatorCall == call.op = "OPERATIONS"

\* column c of the 2-D array of the call
ArgColumn(c) ==
    [r \in 1..Len(call.args[1].data) |-> call.args[1].data[r][c]]

\* C22: mean, sum, min and max reduce an array over its rows, column by
\* column, and squeeze singleton dimensions, so that one column gives a
\* scalar; on [[1,2],[3,4]] mean is [2,3], sum [4,6], min [1,2], max [3,4].
C22_RegistryReductions ==
    (IsOperatorCall /\ call.op_name \in Reductions /\ Len(call.args) = 1
                    /\ call.args[1].ndim = 2) =>
        LET array == call.args[1].data
            w == Len(array[1])
            twoByTwo == array = << <<1, 2>>, <<3, 4>> >>
        IN  /\ result.err = "none"
            /\ IF w = 1
               THEN /\ result.value.ndim = 0
                    /\ IsReduction(call.op_name, ArgColumn(1), result.value.val)
               ELSE /\ result.value.ndim = 1
                    /\ Len(result.value.data) = w
                    /\ \A c \in 1..w :
                          IsReduction(call.op_name, ArgColumn(c),
                                      result.value.data[c])
            /\ (twoByTwo /\ call.op_name = "mean") =>
                  result.value.data = <<[num |-> 2, den |-> 1], [num |-> 3, den |-> 1]>>
            /\ (twoByTwo /\ call.op_name = "sum") =>
                  result.value.data = <<[num |-> 4, den |-> 1], [num |-> 6, den |-> 1]>>
            /\ (twoByTwo /\ call.op_name = "min") =>
                  result.value.data = <<[num |-> 1, den |-> 1], [num |-> 2, den |-> 1]>>
            /\ (twoByTwo /\ call.op_name = "max") =>
                  result.value.data = <<[num |-> 3, den |-> 1], [num |-> 4, den |-> 1]>>

C22_Witness ==
    /\ IsOperatorCall
    /\ call.op_name = "mean"
    /\ call.args = <<Array2(<< <<1, 2>>, <<3, 4>> >>)>>
    /\ result.err = "none"
    /\ result.value = [ndim |-> 1,
                       data |-> <<[num |-> 2, den |-> 1], [num |-> 3, den |-> 1]>>]

\* the voxel that contains a coordinate in half units: its floor
Floored(c) == CHOOSE t \in -(Abs(c) + 1)..(Abs(c) + 1) : 2 * t <= c /\ c < 2 * t + 2

ContainingVoxel(pt) == <<Floored(pt[1]), Floored(pt[2]), Floored(pt[3])>>

\* the sum of the dpp values of the selected points that voxel v contains
SumInVoxel(v) ==
    SumSeq([i \in 1..Len(streamlines) |->
              SumSeq([n \in 1..Len(Selection(i)) |->
                        IF ContainingVoxel(streamlines[i][Selection(i)[n]]) = v
                        THEN pre.dpp[call.dpp_key][i][Selection(i)[n]][1]
                        ELSE 0])])

\* C24: project_dpp_to_map accumulates every selected point into the voxel
\* that contains it, the voxel whose index on each axis is the floor of the
\* point's vox/corner coordinate, also for coordinates between -1 and 0
\* (stated as the claim has it; the index is taken by truncation toward 0).
C24_FloorVoxel ==
    (IsDppToMap /\ call.sum_lines /\ ScalarKey /\ result.err = "none") =>
        \A v \in Voxels : result.the_map[v] = [num |-> SumInVoxel(v), den |-> 1]

RECURSIVE SumOverVoxels(_, _)
SumOverVoxels(the_map, vs) ==
    IF vs = {} THEN 0
    ELSE LET v == CHOOSE x \in vs : TRUE
         IN  the_map[v].num + SumOverVoxels(the_map, vs \ {v})

\* the dpp number of point j of streamline i under the key of the call
PointValue(i, j) == pre.dpp[call.dpp_key][i][j][1]

\* C29: with sum_lines true and every selected point inside the grid, the
\* returned map summed over all voxels equals the dpp values summed over
\* all selected points; with endpoints_only each streamline contributes its
\* first and its last value, twice the same value when it has one point.
C29_TotalPreserved ==
    (IsDppToMap /\ call.sum_lines /\ ScalarKey /\ result.err = "none") =>
        /\ \A v \in Voxels : result.the_map[v].den = 1
        /\ SumOverVoxels(result.the_map, Voxels) =
              SumSeq([i \in 1..Len(streamlines) |->
                        SumSeq([n \in 1..Len(Selection(i)) |->
                                  PointValue(i, Selection(i)[n])])])
        /\ call.endpoints_only =>
              SumOverVoxels(result.the_map, Voxels) =
                  SumSeq([i \in 1..Len(streamlines) |->
                            PointValue(i, 1) + PointValue(i, Len(streamlines[i]))])

C29_Witness ==
    /\ IsDppToMap
    /\ call.sum_lines
    /\ call.endpoints_only
    /\ ScalarKey
    /\ result.err = "none"
    /\ Len(streamlines) = 2
    /\ Len(streamlines[1]) = 1
    /\ Len(streamlines[2]) = 3
    /\ SumOverVoxels(result.the_map, Voxels) =
          2 * PointValue(1, 1) + PointValue(2, 1) + PointValue(2, 3)

IsGradientSampling == call.op = "scil_generate_gradient_sampling"

\* C25: in scil_generate_gradient_sampling with --mrtrix, every run that
\* reaches the saving step saves the sampling to out_basename + '.b',
\* whatever the shape of the points array, also when its first dimension is
\* 3 (stated as the claim has it; the save is inside the test on the shape).
C25_MrtrixAlwaysSaved ==
    (IsGradientSampling /\ call.args.mrtrix /\ result.err = "none") =>
        result.saved = {FileName(call.args.out_basename.root, ".b")}

\* C26: every convert_dps_to_dpp call, succeeding or failing, keeps the
\* union of the key sets of data_per_streamline and data_per_point: no key
\* appears that was in neither, and no key disappears from both.
C26_KeyUnionPreserved ==
    IsConvert =>
        (DOMAIN data_per_streamline) \cup (DOMAIN data_per_point) =
            (DOMAIN pre.dps) \cup (DOMAIN pre.dpp)

C26_Witness ==
    /\ IsConvert
    /\ call.keys = <<"a", "b">>
    /\ DOMAIN pre.dps = {"a"}
    /\ DOMAIN pre.dpp = {"b"}
    /\ result.err = "missing_key"
    /\ DOMAIN data_per_streamline = {}
    /\ DOMAIN data_per_point = {"a", "b"}
    /\ Len(streamlines) = 2

\* the keys named by the key list of the call
ListedKeys == {call.keys[n] : n \in 1..Len(call.keys)}

\* C27: convert_dps_to_dpp, succeeding or failing, leaves the streamlines,
\* the space, the origin and the dps and dpp entries of every key that is
\* not in the key list as they were before the call.
C27_ConvertFrame ==
    IsConvert =>
        /\ streamlines = pre.streamlines
        /\ space = pre.space
        /\ origin = pre.origin
        /\ \A k \in KeyNames \ ListedKeys :
              /\ (k \in DOMAIN data_per_streamline) = (k \in DOMAIN pre.dps)
              /\ k \in DOMAIN pre.dps => data_per_streamline[k] = pre.dps[k]
              /\ (k \in DOMAIN data_per_point) = (k \in DOMAIN pre.dpp)
              /\ k \in DOMAIN pre.dpp => data_per_point[k] = pre.dpp[k]

C27_Witness ==
    /\ IsConvert
    /\ call.keys = <<"a">>
    /\ DOMAIN pre.dps = {"a", "b"}
    /\ DOMAIN pre.dpp = {"b"}
    /\ result.err = "none"
    /\ Len(streamlines) = 2
    /\ DOMAIN data_per_streamline = {"b"}
    /\ DOMAIN data_per_point = {"a", "b"}
    /\ data_per_point["b"] = pre.dpp["b"]
    /\ data_per_streamline["b"] = pre.dps["b"]

\* C28: when the key list holds the same key twice, the key being in dps
\* and not in dpp, the call fails with the missing-key error at the second
\* occurrence, after the first occurrence has moved the key from dps to dpp.
C28_DuplicateKey ==
    IsConvert =>
        \A n \in 2..Len(call.keys) :
            LET k == call.keys[n]
            IN  (/\ Reaches(n)
                 /\ \E m \in 1..(n - 1) : call.keys[m] = k
                 /\ k \in DOMAIN pre.dps
                 /\ k \notin DOMAIN pre.dpp) =>
                    /\ result.err = "missing_key"
                    /\ result.key = k
                    /\ result.done = n - 1
                    /\ k \notin DOMAIN data_per_streamline
                    /\ k \in DOMAIN data_per_point
                    /\ data_per_point[k] = ExpectedDpp(k)

C28_Witness ==
    /\ IsConvert
    /\ call.keys = <<"a", "a">>
    /\ ~call.overwrite
    /\ DOMAIN pre.dps = {"a", "b"}
    /\ DOMAIN pre.dpp = {}
    /\ result.err = "missing_key"
    /\ result.key = "a"
    /\ Len(streamlines) = 2
    /\ DOMAIN data_per_streamline = {"b"}
    /\ DOMAIN data_per_point = {"a"}
    /\ data_per_point["a"] = ExpectedDpp("a")

\* the call without endpoints_only on the two-point streamline made of the
\* first and the last dpp values of streamline i
OnEndpointPair(i) ==
    perform_operation_dpp_to_dps(
        [k \in {call.dpp_name} |-> << <<Rows(i)[1], Rows(i)[Len(Rows(i))]>> >>],
        call.op_name, call.dpp_name, FALSE)

\* C30: for dpp values of width 1 and mean, sum, min and max,
\* perform_operation_dpp_to_dps with endpoints_only on a streamline gives
\* the value that the call without endpoints_only gives on the two-point
\* streamline made of its first and last values; both modes agree on
\* every two-point streamline.
C30_EndpointsAsTwoPoints ==
    (IsDppToDps /\ call.endpoints_only /\ call.op_name \in Reductions
                /\ call.dpp_name \in DOMAIN data_per_point
                /\ \A i \in 1..Len(streamlines) : Len(Rows(i)[1]) = 1) =>
        /\ result.err = "none"
        /\ \A i \in 1..Len(streamlines) :
              /\ OnEndpointPair(i).err = "none"
              /\ result.data[i] = OnEndpointPair(i).data[1]
              /\ Len(Rows(i)) = 2 => result.data[i] = WholeStreamlines.data[i]

C30_Witness ==
    /\ IsDppToDps
    /\ call.endpoints_only
    /\ call.op_name = "sum"
    /\ call.dpp_name = "a"
    /\ result.err = "none"
    /\ Len(streamlines) = 2
    /\ Rows(1) = << <<1>>, <<2>> >>
    /\ Rows(2) = << <<1>>, <<2>>, <<3>>, <<10>> >>
    /\ result.data[1] = [ndim |-> 0, val |-> [num |-> 3, den |-> 1]]
    /\ result.data[1] = WholeStreamlines.data[1]
    /\ result.data[2] = [ndim |-> 0, val |-> [num |-> 11, den |-> 1]]
    /\ result.data[2] # WholeStreamlines.data[2]

====
